---- MODULE Spec2Model ----
(***************************************************************************)
(* Model of the metric service of CareerHack2024_GCP_API:                  *)
(*   util/system_metric.py   get_metric, _normalize_dataframe,             *)
(*                           get_metric_async, get_all_metrics             *)
(*   flask_api_server.py     get_system_metric_api                         *)
(*                                                                         *)
(* A pandas DataFrame is the record [columns, index, data]: the column     *)
(* labels (which may repeat), the row timestamps, and one sequence of      *)
(* cells per row.  A cell is NaN (absent), a number, or a Distribution     *)
(* object, of which only the mean is read.  Numbers are integers: the      *)
(* model does not follow floating-point rounding.  Timestamps carry the    *)
(* fields of a datetime down to the microsecond.                           *)
(***************************************************************************)
EXTENDS Integers, Sequences, FiniteSets, TLC

VARIABLES
    nMetric,    \* normalizer run: the metric argument
    nInput,     \* normalizer run: the DataFrame argument
    nLive,      \* normalizer run: whether iterrows() yields views of the frame
    nOut,       \* normalizer run: the DataFrame returned
    nAgain,     \* normalizer run: the DataFrame returned for nOut as argument
    nPc,        \* normalizer run: position
    request,    \* API request: [kind, names], the metrics it fetches
    window,     \* API request: [days, hours, minutes]
    task,       \* per fetch: [pc, result, calls]
    pcAll,      \* position of get_all_metrics / of the single get_metric call
    response,   \* what get_all_metrics returned or raised
    http,       \* the status and body the Flask route answered with
    up          \* a call of cloud_run_upscale: arguments, environment, position,
                \* the calls made to the Cloud Run control plane, the outcome

vars == <<nMetric, nInput, nLive, nOut, nAgain, nPc,
          request, window, task, pcAll, response, http, up>>

nvars == <<nMetric, nInput, nLive, nOut, nAgain, nPc>>
fvars == <<request, window, task, pcAll, response, http>>

-----------------------------------------------------------------------------
(* Bounds of the model *)

MaxRows == 2
MaxCols == 2
MaxCells == 4
MaxSpan == 1

-----------------------------------------------------------------------------
(* The metric names *)

\* metric_list of get_all_metrics, in its order
metric_list ==
    << "request_count", "request_latencies", "instance_count",
       "CPU_utilization", "memory_utilization", "startup_latency" >>

\* the keys of metrics_info in get_metric
metrics_info ==
    { "request_count", "request_latencies", "instance_count",
      "CPU_utilization", "memory_utilization", "startup_latency" }

\* a name that is no key of metrics_info
UnknownName == "disk_usage"

MetricArgs == metrics_info \cup {UnknownName}

-----------------------------------------------------------------------------
(* Cells, timestamps and DataFrames *)

NaN == [kind |-> "nan", v |-> 0]
Num(n) == [kind |-> "num", v |-> n]
Dist(m) == [kind |-> "dist", v |-> m]

\* the cells a scalar-valued series holds, and those a distribution-valued one holds
ScalarCells == {NaN, Num(3), Num(5)}
DistCells == {NaN, Dist(4), Dist(6)}

Labels == {"200", "302"}
\* the order groupby(level=0) sorts the labels in
LabelOrder == <<"200", "302">>

Stamp(h, mi, s, us) ==
    [day |-> 19, hour |-> h, minute |-> mi, second |-> s, microsecond |-> us]

\* the timestamps of the input rows, ascending
StampOrder ==
    << Stamp(15, 14, 0, 0), Stamp(15, 14, 23, 123456), Stamp(15, 15, 0, 0) >>

EmptyFrame == [columns |-> <<>>, index |-> <<>>, data |-> <<>>]

NRows(df) == Len(df.index)
NCols(df) == Len(df.columns)

\* the strictly ascending sequences of input timestamps of length n
AscendingStamps(n) ==
    { s \in [1..n -> 1..Len(StampOrder)] : \A i \in 1..n, j \in 1..n : i < j => s[i] < s[j] }

\* every row and every column of a frame comes from a point of a series
Populated(d, r, c) ==
    /\ \A i \in 1..r : \E j \in 1..c : d[i][j].kind # "nan"
    /\ \A j \in 1..c : \E i \in 1..r : d[i][j].kind # "nan"

\* the frames as_dataframe can return with cells drawn from `cells`
Frames(cells) ==
    {EmptyFrame} \cup
    UNION { UNION { { [columns |-> cols,
                       index |-> [i \in 1..r |-> StampOrder[pos[i]]],
                       data |-> d] :
                      cols \in [1..c -> Labels],
                      pos \in AscendingStamps(r),
                      d \in { x \in [1..r -> [1..c -> cells]] : Populated(x, r, c) } } :
                    c \in { k \in 1..MaxCols : r * k <= MaxCells } } :
            r \in 1..MaxRows }

-----------------------------------------------------------------------------
(* _normalize_dataframe *)

\* df.fillna(0.0)
Fillna(df) ==
    [df EXCEPT !.data =
        [i \in 1..NRows(df) |->
            [j \in 1..NCols(df) |->
                IF df.data[i][j].kind = "nan" THEN Num(0) ELSE df.data[i][j]]]]

\* x.replace(second=0): the microseconds left in place
ReplaceSecondOnly(x) == [x EXCEPT !.second = 0]

\* x.replace(second=0, microsecond=0)
ReplaceSeconds(x) == [x EXCEPT !.second = 0, !.microsecond = 0]

\* df.index = df.index.map(...)
TruncateIndex(df) ==
    [df EXCEPT !.index = [i \in 1..NRows(df) |-> ReplaceSeconds(df.index[i])]]

\* df.loc[index, column_name] = m: every cell whose row carries that index value
\* and whose column carries that label
LocAssign(df, data, index, column_name, m) ==
    [i \in 1..NRows(df) |->
        [j \in 1..NCols(df) |->
            IF df.index[i] = index /\ df.columns[j] = column_name
            THEN Num(m) ELSE data[i][j]]]

\* the loop over iterrows() and row.items(), from cell number p on (row-major);
\* `live` tells whether the rows iterated are views of the frame being assigned
\* or copies taken before the loop
RECURSIVE MeanLoop(_, _, _, _)
MeanLoop(df, data, p, live) ==
    IF p > NRows(df) * NCols(df) THEN data
    ELSE LET i == ((p - 1) \div NCols(df)) + 1
             j == ((p - 1) % NCols(df)) + 1
             value == IF live THEN data[i][j] ELSE df.data[i][j]
         IN  IF value.kind = "dist"
             THEN MeanLoop(df, LocAssign(df, data, df.index[i], df.columns[j], value.v),
                           p + 1, live)
             ELSE MeanLoop(df, data, p + 1, live)

Standardize(df, live) == [df EXCEPT !.data = MeanLoop(df, df.data, 1, live)]

RECURSIVE SumSeq(_)
SumSeq(s) == IF s = <<>> THEN 0 ELSE Head(s) + SumSeq(Tail(s))

RECURSIVE MaxSeq(_)
MaxSeq(s) ==
    IF Len(s) = 1 THEN Head(s)
    ELSE LET m == MaxSeq(Tail(s)) IN IF Head(s) >= m THEN Head(s) ELSE m

\* the labels of the groups, as groupby(level=0) orders them
GroupKeys(df) ==
    SelectSeq(LabelOrder, LAMBDA l : \E j \in 1..NCols(df) : df.columns[j] = l)

\* the values of row i in the columns labelled l, left to right
GroupValues(df, i, l) ==
    LET js == SelectSeq([j \in 1..NCols(df) |-> j], LAMBDA j : df.columns[j] = l)
    IN  [k \in 1..Len(js) |-> df.data[i][js[k]].v]

\* df.T.groupby(level=0).sum().T
GroupSum(df) ==
    LET keys == GroupKeys(df)
    IN  [columns |-> keys,
         index |-> df.index,
         data |-> [i \in 1..NRows(df) |->
                     [k \in 1..Len(keys) |-> Num(SumSeq(GroupValues(df, i, keys[k])))]]]

\* df.T.groupby(level=0).max().T
GroupMax(df) ==
    LET keys == GroupKeys(df)
    IN  [columns |-> keys,
         index |-> df.index,
         data |-> [i \in 1..NRows(df) |->
                     [k \in 1..Len(keys) |-> Num(MaxSeq(GroupValues(df, i, keys[k])))]]]

\* df * 100
Times100(df) ==
    [df EXCEPT !.data =
        [i \in 1..NRows(df) |-> [j \in 1..NCols(df) |-> Num(df.data[i][j].v * 100)]]]

\* the match statement with the percentage conversion also in the second max case
MatchMetricScaleMax(df, metric) ==
    CASE metric \in {"request_count", "request_latencies"} -> GroupSum(df)
      [] metric \in {"CPU_utilization", "memory_utilization"} -> Times100(GroupMax(df))
      [] metric \in {"startup_latency", "instance_count"} -> Times100(GroupMax(df))
      [] OTHER -> GroupSum(df)

\* the match statement without the percentage conversion
MatchMetricNoScale(df, metric) ==
    CASE metric \in {"request_count", "request_latencies"} -> GroupSum(df)
      [] metric \in {"CPU_utilization", "memory_utilization"} -> GroupMax(df)
      [] metric \in {"startup_latency", "instance_count"} -> GroupMax(df)
      [] OTHER -> GroupSum(df)

\* the match statement
MatchMetric(df, metric) ==
    CASE metric \in {"request_count", "request_latencies"} -> GroupSum(df)
      [] metric \in {"CPU_utilization", "memory_utilization"} -> Times100(GroupMax(df))
      [] metric \in {"startup_latency", "instance_count"} -> GroupMax(df)
      [] OTHER -> GroupSum(df)

NormalizeDataframe(df, metric, live) ==
    MatchMetric(Standardize(TruncateIndex(Fillna(df)), live), metric)

-----------------------------------------------------------------------------
(* No call of cloud_run_upscale in progress *)

Unset == "unset"
NoLimits == [memory |-> "256Mi", cpu |-> "500m"]
NoTarget == [project |-> "none", region |-> "none", service |-> "none"]

IdleUpscale ==
    [pc |-> "idle", memory_limit |-> "None", cpu_limit |-> "None",
     env |-> [SERVICE_NAME |-> Unset, SERVICE_REGION |-> Unset, PROJECT_ID |-> Unset],
     target |-> NoTarget, service |-> NoLimits, deployed |-> NoLimits,
     calls |-> <<>>, error |-> "none", status |-> 0, http |-> 0]

-----------------------------------------------------------------------------
(* A call of _normalize_dataframe, and a second call on what it returned *)

IdleFetch ==
    /\ request = [kind |-> "none", names |-> <<>>]
    /\ window = [days |-> 0, hours |-> 0, minutes |-> 0]
    /\ task = <<>>
    /\ pcAll = "idle"
    /\ response = [kind |-> "none"]
    /\ http = [status |-> 0]

NormalizeInit ==
    /\ nMetric \in MetricArgs
    /\ \/ nInput \in Frames(ScalarCells) /\ nLive = FALSE
       \/ nInput \in Frames(DistCells) /\ nLive \in BOOLEAN
    /\ nOut = EmptyFrame
    /\ nAgain = EmptyFrame
    /\ nPc = "call"
    /\ IdleFetch
    /\ up = IdleUpscale

Normalize ==
    /\ nPc = "call"
    /\ nOut' = NormalizeDataframe(nInput, nMetric, nLive)
    /\ nPc' = "returned"
    /\ UNCHANGED <<nMetric, nInput, nLive, nAgain, fvars, up>>

NormalizeAgain ==
    /\ nPc = "returned"
    /\ nAgain' = NormalizeDataframe(nOut, nMetric, nLive)
    /\ nPc' = "again"
    /\ UNCHANGED <<nMetric, nInput, nLive, nOut, fvars, up>>

NormalizeNext == Normalize \/ NormalizeAgain

SpecNormalize == NormalizeInit /\ [][NormalizeNext]_vars

-----------------------------------------------------------------------------
(* get_metric, get_metric_async, get_all_metrics and the two Flask routes *)

\* the test with the minutes forgotten
AllZeroButMinutes(w) == w.days = 0 /\ w.hours = 0

\* if days == 0 and hours == 0 and minutes == 0
AllZero(w) == w.days = 0 /\ w.hours = 0 /\ w.minutes = 0

\* metrics_info.get(metric, <some entry>): a lookup that falls back to a default
LookupWithDefault(metric) == "found"

\* metrics_info[metric]
Lookup(metric) == IF metric \in metrics_info THEN "found" ELSE "KeyError"

\* two answers of the monitoring backend: one sample, and two samples that
\* fall into the same minute
PlainFrame ==
    [columns |-> <<"200">>, index |-> <<StampOrder[1]>>, data |-> << <<Num(3)>> >>]
JitterFrame ==
    [columns |-> <<"200">>, index |-> <<StampOrder[1], StampOrder[2]>>,
     data |-> << <<Num(3)>>, <<Num(5)>> >>]
BackendFrames == {PlainFrame, JitterFrame}

Frame(df) == [kind |-> "frame", frame |-> df, error |-> "none"]
Raised(e) == [kind |-> "error", frame |-> EmptyFrame, error |-> e]
NoResult == [kind |-> "none", frame |-> EmptyFrame, error |-> "none"]

Finished(t) == t.pc \in {"returned", "raised"}

\* milliseconds since the start of the month, the key to_json writes for a row
EpochMs(x) ==
    (((x.day * 24 + x.hour) * 60 + x.minute) * 60 + x.second) * 1000
        + (x.microsecond \div 1000)

\* DataFrame.to_json(), orient "columns": it raises for an index that is not
\* unique, and else writes {label: {timestamp: value}}
ToJson(df) ==
    IF \E i, k \in 1..NRows(df) : i # k /\ df.index[i] = df.index[k]
    THEN [kind |-> "ValueError"]
    ELSE [kind |-> "json",
          cols |-> [l \in { df.columns[j] : j \in 1..NCols(df) } |->
                      [ms \in { EpochMs(df.index[i]) : i \in 1..NRows(df) } |->
                          LET i == CHOOSE r \in 1..NRows(df) : EpochMs(df.index[r]) = ms
                              j == CHOOSE c \in 1..NCols(df) : df.columns[c] = l
                          IN  df.data[i][j].v]]]

\* f"An error occurred while getting the metric '{metric}':\n{result}"
ErrorText(metric, e) == [kind |-> "text", metric |-> metric, error |-> e]

RequestInit ==
    /\ request \in
          {[kind |-> "all", names |-> metric_list]} \cup
          {[kind |-> "one", names |-> <<m>>] : m \in MetricArgs}
    /\ window \in [days : 0..MaxSpan, hours : 0..MaxSpan, minutes : 0..MaxSpan]
    /\ task = [i \in 1..Len(request.names) |->
                  [pc |-> "created", result |-> NoResult, calls |-> 0]]
    /\ pcAll = "running"
    /\ response = [kind |-> "none"]
    /\ http = [status |-> 0]
    /\ nMetric = "request_count"
    /\ nInput = EmptyFrame
    /\ nLive = FALSE
    /\ nOut = EmptyFrame
    /\ nAgain = EmptyFrame
    /\ nPc = "idle"
    /\ up = IdleUpscale

\* get_metric is entered (for get_all_metrics: on a thread of the executor) and
\* tests the window
Enter(i) ==
    /\ task[i].pc = "created"
    /\ IF AllZero(window)
       THEN task' = [task EXCEPT ![i].pc = "returned", ![i].result = Frame(EmptyFrame)]
       ELSE task' = [task EXCEPT ![i].pc = "query"]
    /\ UNCHANGED <<request, window, pcAll, response, http, nvars, up>>

\* the rest of get_metric: the monitoring client, the Query built for the
\* metric's type and label, as_dataframe, _normalize_dataframe.  calls counts
\* the uses of the monitoring transport.
Query(i) ==
    /\ task[i].pc = "query"
    /\ \/ \* MetricServiceClient() or as_dataframe raises
          task' = [task EXCEPT ![i].pc = "raised",
                               ![i].result = Raised("TransportError"),
                               ![i].calls = @ + 1]
       \/ /\ Lookup(request.names[i]) = "KeyError"
          /\ task' = [task EXCEPT ![i].pc = "raised",
                                  ![i].result = Raised("KeyError"),
                                  ![i].calls = @ + 1]
       \/ /\ Lookup(request.names[i]) = "found"
          /\ \E df \in BackendFrames, live \in BOOLEAN :
                task' = [task EXCEPT
                            ![i].pc = "returned",
                            ![i].result =
                                Frame(NormalizeDataframe(df, request.names[i], live)),
                            ![i].calls = @ + 1]
    /\ UNCHANGED <<request, window, pcAll, response, http, nvars, up>>

\* gather without return_exceptions: it is over with the first exception
GatherFirstException(t) ==
    \/ \A i \in DOMAIN t : t[i].pc \in {"returned", "raised"}
    \/ \E i \in DOMAIN t : t[i].pc = "raised"

\* asyncio.gather(..., return_exceptions=True) has its results when every
\* awaitable has a result or an exception
GatherDone(t) == \A i \in DOMAIN t : Finished(t[i])

\* the loop over zip(sorted(metric_list), results): the names in another order
\* than the awaitables
BuildResponseSortedNames(names, results) ==
    LET sorted == << "CPU_utilization", "instance_count", "memory_utilization",
                     "request_count", "request_latencies", "startup_latency" >>
    IN  IF \E i \in DOMAIN results :
              results[i].kind = "frame" /\ ToJson(results[i].frame).kind = "ValueError"
        THEN [kind |-> "exception", error |-> "ValueError"]
        ELSE [kind |-> "mapping",
              map |-> [m \in { sorted[i] : i \in DOMAIN sorted } |->
                         LET i == CHOOSE k \in DOMAIN sorted : sorted[k] = m
                         IN  IF results[i].kind = "error"
                             THEN ErrorText(sorted[i], results[i].error)
                             ELSE ToJson(results[i].frame)]]

\* the loop over zip(metric_list, results)
BuildResponse(names, results) ==
    IF \E i \in DOMAIN results :
          results[i].kind = "frame" /\ ToJson(results[i].frame).kind = "ValueError"
    THEN [kind |-> "exception", error |-> "ValueError"]
    ELSE [kind |-> "mapping",
          map |-> [m \in { names[i] : i \in DOMAIN names } |->
                     LET i == CHOOSE k \in DOMAIN names : names[k] = m
                     IN  IF results[i].kind = "error"
                         THEN ErrorText(names[i], results[i].error)
                         ELSE ToJson(results[i].frame)]]

\* get_all_metrics from the return of gather to its own return
Gather ==
    /\ request.kind = "all"
    /\ pcAll = "running"
    /\ GatherDone(task)
    /\ response' = BuildResponse(request.names, [i \in DOMAIN task |-> task[i].result])
    /\ pcAll' = IF response'.kind = "mapping" THEN "returned" ELSE "raised"
    /\ UNCHANGED <<request, window, task, http, nvars, up>>

\* get_all_system_metric_api: the try around get_all_metrics
ApiAll ==
    /\ request.kind = "all"
    /\ pcAll \in {"returned", "raised"}
    /\ http.status = 0
    /\ http' = IF pcAll = "returned"
               THEN [status |-> 200, body |-> response]
               ELSE [status |-> 500, body |-> [kind |-> "text", error |-> response.error]]
    /\ UNCHANGED <<request, window, task, pcAll, response, nvars, up>>

\* get_system_metric_api: the try around get_metric and to_json
ApiOne ==
    /\ request.kind = "one"
    /\ pcAll = "running"
    /\ Finished(task[1])
    /\ pcAll' = task[1].pc
    /\ http' = IF task[1].result.kind = "error"
               THEN [status |-> 500, body |-> ErrorText(request.names[1], task[1].result.error)]
               ELSE IF ToJson(task[1].result.frame).kind = "ValueError"
                    THEN [status |-> 500, body |-> ErrorText(request.names[1], "ValueError")]
                    ELSE [status |-> 200, body |-> ToJson(task[1].result.frame)]
    /\ UNCHANGED <<request, window, task, response, nvars, up>>

Next ==
    \/ \E i \in DOMAIN task : Enter(i)
    \/ \E i \in DOMAIN task : Query(i)
    \/ Gather
    \/ ApiAll
    \/ ApiOne

Spec == RequestInit /\ [][Next]_vars

-----------------------------------------------------------------------------
(* cloud_run_upscale and its Flask route *)

\* the test with `or` in place of `and`
EitherNone(memory_limit, cpu_limit) == memory_limit = "None" \/ cpu_limit = "None"

\* if memory_limit is None and cpu_limit is None
BothNone(memory_limit, cpu_limit) == memory_limit = "None" /\ cpu_limit = "None"

\* os.getenv(key, default=...)
Getenv(env, key, default) == IF env[key] = Unset THEN default ELSE env[key]

\* f"projects/{PROJECT_ID}/locations/{SERVICE_REGION}/services/{SERVICE_NAME}",
\* with the defaults of cloud_run_upscale
ResourceName(env) ==
    [project |-> Getenv(env, "PROJECT_ID", "tsmccareerhack2024-icsd-grp1"),
     region |-> Getenv(env, "SERVICE_REGION", "us-central1"),
     service |-> Getenv(env, "SERVICE_NAME", "dvwa")]

\* the environments: each variable set by the deployment, or not set
Environments ==
    [SERVICE_NAME : {Unset, "metrics-svc"},
     SERVICE_REGION : {Unset, "asia-east1"},
     PROJECT_ID : {Unset, "my-project"}]

\* service.template.containers[0].resources.limits[...] = ..., for the limits given
WithLimits(service, memory_limit, cpu_limit) ==
    [memory |-> IF memory_limit # "None" THEN memory_limit ELSE service.memory,
     cpu |-> IF cpu_limit # "None" THEN cpu_limit ELSE service.cpu]

UpscaleInit ==
    /\ \E m \in {"None", "512Mi"}, c \in {"None", "1000m"}, e \in Environments :
          up = [IdleUpscale EXCEPT !.pc = "called", !.memory_limit = m,
                                   !.cpu_limit = c, !.env = e]
    /\ IdleFetch
    /\ nMetric = "request_count"
    /\ nInput = EmptyFrame
    /\ nLive = FALSE
    /\ nOut = EmptyFrame
    /\ nAgain = EmptyFrame
    /\ nPc = "idle"

\* the first statement: the ValueError
UpValidate ==
    /\ up.pc = "called"
    /\ IF BothNone(up.memory_limit, up.cpu_limit)
       THEN up' = [up EXCEPT !.pc = "raised", !.error = "ValueError"]
       ELSE up' = [up EXCEPT !.pc = "validated"]
    /\ UNCHANGED <<nvars, fvars>>

\* load_dotenv, the three getenv with their defaults, ServicesClient(), resource_name
UpConfigure ==
    /\ up.pc = "validated"
    /\ \/ up' = [up EXCEPT !.pc = "raised", !.error = "ClientError",
                           !.target = ResourceName(up.env)]
       \/ up' = [up EXCEPT !.pc = "client", !.target = ResourceName(up.env)]
    /\ UNCHANGED <<nvars, fvars>>

\* client.get_service(name=resource_name)
UpGetService ==
    /\ up.pc = "client"
    /\ \/ up' = [up EXCEPT !.pc = "raised", !.error = "GetServiceError",
                           !.calls = Append(@, [call |-> "get_service", name |-> up.target])]
       \/ up' = [up EXCEPT !.pc = "fetched", !.service = up.deployed,
                           !.calls = Append(@, [call |-> "get_service", name |-> up.target])]
    /\ UNCHANGED <<nvars, fvars>>

\* the two assignments to the limits and client.update_service(service=service)
UpUpdateService ==
    /\ up.pc = "fetched"
    /\ LET service == WithLimits(up.service, up.memory_limit, up.cpu_limit)
           call == [call |-> "update_service", name |-> up.target]
       IN  \/ up' = [up EXCEPT !.pc = "raised", !.error = "UpdateServiceError",
                               !.service = service, !.calls = Append(@, call)]
           \/ up' = [up EXCEPT !.pc = "updating",
                               !.service = service, !.calls = Append(@, call)]
    /\ UNCHANGED <<nvars, fvars>>

\* operation.result() and the two returns
UpResult ==
    /\ up.pc = "updating"
    /\ \/ up' = [up EXCEPT !.pc = "raised", !.error = "OperationError"]
       \/ up' = [up EXCEPT !.pc = "returned", !.status = 200, !.deployed = up.service]
       \/ up' = [up EXCEPT !.pc = "returned", !.status = 500]
    /\ UNCHANGED <<nvars, fvars>>

\* cloud_run_upscale_api: 200 for state_code 200, else 500; an exception of
\* cloud_run_upscale is not caught by the route and Flask answers 500
UpApi ==
    /\ up.pc \in {"returned", "raised"}
    /\ up.http = 0
    /\ up' = [up EXCEPT !.http = IF up.pc = "returned" /\ up.status = 200 THEN 200 ELSE 500]
    /\ UNCHANGED <<nvars, fvars>>

UpscaleNext ==
    \/ UpValidate
    \/ UpConfigure
    \/ UpGetService
    \/ UpUpdateService
    \/ UpResult
    \/ UpApi

SpecUpscale == UpscaleInit /\ [][UpscaleNext]_vars

-----------------------------------------------------------------------------
(* The claims about the resize operation (cloud_run_upscale) *)

LimitsAbsent == up.memory_limit = "None" /\ up.cpu_limit = "None"

Updates == { k \in 1..Len(up.calls) : up.calls[k].call = "update_service" }

\* C11: called with both limits absent, cloud_run_upscale ends in the
\* ValueError with no call made to the control plane (no get_service, no
\* update_service); with at least one limit present the ValueError is never
\* raised.
C11_ValidationBeforeAnyCall ==
    /\ LimitsAbsent =>
          /\ up.calls = <<>>
          /\ up.pc \in {"idle", "called", "raised"}
          /\ up.pc = "raised" => up.error = "ValueError"
    /\ (~LimitsAbsent) => up.error # "ValueError"

C11_Witness ==
    /\ LimitsAbsent
    /\ up.pc = "raised"
    /\ up.error = "ValueError"
    /\ up.calls = <<>>
    /\ up.http = 500

SomeIdentifierUnset ==
    \E key \in {"SERVICE_NAME", "SERVICE_REGION", "PROJECT_ID"} : up.env[key] = Unset

\* C12: when the service name, the region or the project is not configured,
\* cloud_run_upscale ends in a configuration error: it issues no
\* update_service and never returns normally, so it never mutates a service
\* named by a built-in default.
C12_MissingIdentifierIsError ==
    SomeIdentifierUnset =>
        /\ Updates = {}
        /\ up.pc # "returned"

-----------------------------------------------------------------------------
(* The claims about fetchOne (get_metric) and fetchAll (get_all_metrics) *)

ZeroWindow == window.days = 0 /\ window.hours = 0 /\ window.minutes = 0

Known(i) == request.names[i] \in metrics_info

\* C1: whatever subset of the six fetches fails, get_all_metrics returns a
\* mapping whose keys are the six metric names, each value the serialized table
\* of a fetch that succeeded or the error text of one that failed; it never
\* raises.
C1_SixKeysAlways ==
    (request.kind = "all" /\ pcAll # "running") =>
        /\ response.kind = "mapping"
        /\ DOMAIN response.map = metrics_info
        /\ \A i \in DOMAIN task :
              response.map[request.names[i]].kind =
                  IF task[i].pc = "raised" THEN "text" ELSE "json"

\* C2: get_all_metrics goes on only when all six fetches have a result or an
\* error, and a fetch that has not finished can always take its next step,
\* whatever the other fetches did.
C2_FullJoinNoCancellation ==
    request.kind = "all" =>
        /\ pcAll # "running" => \A i \in DOMAIN task : Finished(task[i])
        /\ \A i \in DOMAIN task :
              /\ task[i].pc = "created" => ENABLED Enter(i)
              /\ task[i].pc = "query" => ENABLED Query(i)

C2_Witness ==
    /\ request.kind = "all"
    /\ pcAll = "returned"
    /\ task[1].pc = "raised"
    /\ \A i \in 2..6 : task[i].pc = "returned" /\ NRows(task[i].result.frame) = 1

\* C3: with an all-zero window a fetch returns the empty table and uses the
\* monitoring transport zero times; with a non-zero window and a catalog name
\* it uses it exactly once; get_all_metrics with an all-zero window returns six
\* serialized empty tables.
C3_WindowDegeneracy ==
    /\ \A i \in DOMAIN task :
          /\ ZeroWindow =>
                /\ task[i].calls = 0
                /\ Finished(task[i]) => task[i].result = Frame(EmptyFrame)
          /\ (~ZeroWindow /\ Known(i)) =>
                /\ task[i].calls <= 1
                /\ Finished(task[i]) => task[i].calls = 1
    /\ (request.kind = "all" /\ ZeroWindow /\ pcAll # "running") =>
          /\ response.kind = "mapping"
          /\ \A m \in metrics_info : response.map[m] = ToJson(EmptyFrame)

C3_Witness ==
    /\ request.kind = "all"
    /\ ZeroWindow
    /\ pcAll = "returned"
    /\ \A i \in DOMAIN task : task[i].calls = 0

\* C4 as stated: for a name outside the catalog a fetch ends in the error of
\* the catalog lookup for every window, the all-zero one included.
C4_UnknownMetricAlwaysError ==
    \A i \in DOMAIN task :
        (~Known(i) /\ Finished(task[i])) =>
            task[i].result.kind = "error"

\* C4 as amended: for a name outside the catalog a fetch with a non-zero window
\* ends in an error (the KeyError of the lookup, unless the transport failed
\* before it), never in a table, so no reducer is applied for the name; with
\* the all-zero window it returns the empty table, the window being tested
\* before the lookup.
C4_UnknownMetricErrorUnlessEmptyWindow ==
    \A i \in DOMAIN task :
        (~Known(i) /\ Finished(task[i])) =>
            IF ZeroWindow
            THEN task[i].result = Frame(EmptyFrame)
            ELSE /\ task[i].result.kind = "error"
                 /\ task[i].result.error \in {"KeyError", "TransportError"}

C4_Witness ==
    /\ request.kind = "one"
    /\ request.names[1] = UnknownName
    /\ ~ZeroWindow
    /\ task[1].pc = "raised"
    /\ task[1].result.error = "KeyError"
    /\ http.status = 500

\* C14: in the mapping get_all_metrics returns, the value under metric name m
\* is the outcome of the fetch issued for m: the serialized table that fetch
\* returned, or the error text naming m with the exception that fetch raised.
C14_ResultAttribution ==
    (request.kind = "all" /\ pcAll = "returned") =>
        \A i \in DOMAIN task :
            response.map[request.names[i]] =
                IF task[i].pc = "raised"
                THEN [kind |-> "text", metric |-> request.names[i],
                      error |-> task[i].result.error]
                ELSE ToJson(task[i].result.frame)

C14_Witness ==
    /\ request.kind = "all"
    /\ pcAll = "returned"
    /\ request.names[1] = "request_count" /\ task[1].pc = "raised"
    /\ request.names[4] = "CPU_utilization" /\ task[4].pc = "returned"
    /\ task[4].result.frame.data = << <<Num(300)>> >>
    /\ \A i \in {2, 3, 5, 6} : task[i].pc = "returned"
    /\ response.map["request_count"].kind = "text"
    /\ response.map["CPU_utilization"] = ToJson(task[4].result.frame)

-----------------------------------------------------------------------------
(* What the claims about the normalizer speak of *)

PercentMetrics == {"CPU_utilization", "memory_utilization"}
SumMetrics == {"request_count", "request_latencies"}
MaxMetrics == metrics_info \ SumMetrics

ScaleOf(metric) == IF metric \in PercentMetrics THEN 100 ELSE 1

\* the columns of df that carry label l
ColumnsOf(df, l) == { j \in 1..NCols(df) : df.columns[j] = l }

LabelsOf(df) == { df.columns[j] : j \in 1..NCols(df) }

\* the value of row i under label l in a frame whose labels are unique
CellAt(df, i, l) == df.data[i][CHOOSE j \in 1..NCols(df) : df.columns[j] = l].v

\* the number a sample of the input stands for: 0.0 when absent, a
\* Distribution's own mean
SampleValue(c) == IF c.kind = "nan" THEN 0 ELSE c.v

RECURSIVE SumOver(_, _, _)
SumOver(df, i, js) ==
    IF js = {} THEN 0
    ELSE LET j == CHOOSE x \in js : TRUE
         IN  SampleValue(df.data[i][j]) + SumOver(df, i, js \ {j})

MaxOver(df, i, js) ==
    CHOOSE m \in { SampleValue(df.data[i][j]) : j \in js } :
        \A j \in js : SampleValue(df.data[i][j]) <= m

\* the reducer the metric's descriptor names, over the columns js of row i
ReduceOver(metric, df, i, js) ==
    IF metric \in SumMetrics THEN SumOver(df, i, js) ELSE MaxOver(df, i, js)

Returned == nPc \in {"returned", "again"}

UniqueLabels(df) ==
    \A j, k \in 1..NCols(df) : j # k => df.columns[j] # df.columns[k]

UniqueIndex(df) ==
    \A i, k \in 1..NRows(df) : i # k => df.index[i] # df.index[k]

MinuteAligned(df) ==
    \A i \in 1..NRows(df) : df.index[i].second = 0 /\ df.index[i].microsecond = 0

AllNumbers(df) ==
    \A i \in 1..NRows(df) : \A j \in 1..NCols(df) : df.data[i][j].kind = "num"

\* an already-normalized table
IsNormalized(df) ==
    UniqueLabels(df) /\ MinuteAligned(df) /\ UniqueIndex(df) /\ AllNumbers(df)

\* a and b hold the same rows, the same labels and, per row and label, k times
\* the value of a in b
SameTableTimes(a, b, k) ==
    /\ a.index = b.index
    /\ LabelsOf(a) = LabelsOf(b)
    /\ UniqueLabels(a) /\ UniqueLabels(b)
    /\ \A i \in 1..NRows(a) : \A l \in LabelsOf(a) : CellAt(b, i, l) = k * CellAt(a, i, l)

\* C5: for every row and every label on several columns of the input, the
\* normalized cell is the Sum (request_count, request_latencies) or the Max (the
\* other four metrics) of those columns' values, a Distribution counting as its
\* own mean and an absent cell as 0, taken before the percentage scale; and
\* every label is on exactly one column of the result.
C5_DuplicateColumnsReduced ==
    (Returned /\ nMetric \in metrics_info) =>
        /\ UniqueLabels(nOut)
        /\ LabelsOf(nOut) = LabelsOf(nInput)
        /\ NRows(nOut) = NRows(nInput)
        /\ \A i \in 1..NRows(nInput) : \A l \in LabelsOf(nInput) :
              Cardinality(ColumnsOf(nInput, l)) > 1 =>
                  CellAt(nOut, i, l) =
                      ScaleOf(nMetric) * ReduceOver(nMetric, nInput, i, ColumnsOf(nInput, l))

\* the timestamp of the minute bucket x falls into
Minute(x) == [x EXCEPT !.second = 0, !.microsecond = 0]

\* the cells of the input that fall into minute ts under label l
BucketCells(df, ts, l) ==
    { p \in (1..NRows(df)) \X (1..NCols(df)) :
        Minute(df.index[p[1]]) = ts /\ df.columns[p[2]] = l }

RECURSIVE SumCells(_, _)
SumCells(df, ps) ==
    IF ps = {} THEN 0
    ELSE LET p == CHOOSE x \in ps : TRUE
         IN  SampleValue(df.data[p[1]][p[2]]) + SumCells(df, ps \ {p})

MaxCellsOf(df, ps) ==
    CHOOSE m \in { SampleValue(df.data[p[1]][p[2]]) : p \in ps } :
        \A p \in ps : SampleValue(df.data[p[1]][p[2]]) <= m

\* C6: no two rows of a normalized table share a timestamp; the input rows of
\* one minute are one row of the result, whose cell for each label is the
\* metric's reducer (Sum or Max) over the cells of those rows under that label.
C6_RowsUniquePerMinute ==
    (Returned /\ nMetric \in metrics_info) =>
        /\ UniqueIndex(nOut)
        /\ \A i \in 1..NRows(nInput) : \A l \in LabelsOf(nInput) :
              \E k \in 1..NRows(nOut) :
                  /\ nOut.index[k] = Minute(nInput.index[i])
                  /\ CellAt(nOut, k, l) =
                        ScaleOf(nMetric) *
                            LET ps == BucketCells(nInput, Minute(nInput.index[i]), l)
                            IN  IF nMetric \in SumMetrics
                                THEN SumCells(nInput, ps) ELSE MaxCellsOf(nInput, ps)

\* C7 as stated: for each of the six metrics, normalizing an already-normalized
\* table returns it unchanged, and normalizing the result again changes nothing.
C7_IdempotentAllMetrics ==
    (nPc = "again" /\ nMetric \in metrics_info /\ IsNormalized(nInput)) =>
        /\ SameTableTimes(nInput, nOut, 1)
        /\ SameTableTimes(nOut, nAgain, 1)

\* C7 as amended: for the four metrics without percentage scale, normalizing an
\* already-normalized table returns it unchanged and a second normalization
\* changes nothing; for CPU_utilization and memory_utilization each pass
\* returns the table with every value multiplied by 100.
C7_IdempotentUpToScale ==
    (nPc = "again" /\ nMetric \in metrics_info /\ IsNormalized(nInput)) =>
        /\ SameTableTimes(nInput, nOut, ScaleOf(nMetric))
        /\ SameTableTimes(nOut, nAgain, ScaleOf(nMetric))

C7_Witness ==
    /\ nPc = "again"
    /\ nMetric = "request_latencies"
    /\ IsNormalized(nInput)
    /\ NRows(nInput) = 2 /\ nInput.columns = <<"302", "200">>
    /\ nInput.data[1][1] = Num(3) /\ nInput.data[2][2] = Num(5)
    /\ nOut.columns = <<"200", "302">>
    /\ nAgain = nOut

\* C8: the normalized table holds no null cell; an absent cell counts as 0.0 in
\* the reduction of its row and label (the other cells of the group counting as
\* their own values); a present cell whose label is on one column keeps its
\* value (up to the percentage scale).
C8_AbsentCellsAreZero ==
    (Returned /\ nMetric \in metrics_info) =>
        /\ AllNumbers(nOut)
        /\ LabelsOf(nOut) = LabelsOf(nInput)
        /\ NRows(nOut) = NRows(nInput)
        /\ \A i \in 1..NRows(nInput) : \A l \in LabelsOf(nInput) :
              LET js == ColumnsOf(nInput, l)
              IN  /\ (\E j \in js : nInput.data[i][j].kind = "nan") =>
                        CellAt(nOut, i, l) =
                            ScaleOf(nMetric) * ReduceOver(nMetric, nInput, i, js)
                  /\ Cardinality(js) = 1 =>
                        CellAt(nOut, i, l) =
                            ScaleOf(nMetric) * SumOver(nInput, i, js)

\* C9: every row timestamp of the normalized table is the input row's timestamp
\* with second and microsecond set to zero and day, hour and minute unchanged.
C9_TimestampsTruncated ==
    Returned =>
        /\ NRows(nOut) = NRows(nInput)
        /\ \A i \in 1..NRows(nInput) :
              /\ nOut.index[i].second = 0
              /\ nOut.index[i].microsecond = 0
              /\ nOut.index[i].day = nInput.index[i].day
              /\ nOut.index[i].hour = nInput.index[i].hour
              /\ nOut.index[i].minute = nInput.index[i].minute

C9_Witness ==
    /\ nPc = "returned"
    /\ \E i \in 1..NRows(nInput) :
          /\ nInput.index[i] = Stamp(15, 14, 23, 123456)
          /\ nOut.index[i] = Stamp(15, 14, 0, 0)

\* the frame the duplicate reduction works on: filled, truncated, means taken
BeforeReduction == Standardize(TruncateIndex(Fillna(nInput)), nLive)

\* C10: the values returned are the reduced values (Sum or Max over the cells
\* of the label as they stand before the reduction) multiplied by 100 exactly
\* once for CPU_utilization and memory_utilization, and unscaled for the other
\* four metrics.
C10_PercentageScale ==
    (Returned /\ nMetric \in metrics_info) =>
        /\ NRows(nOut) = NRows(nInput)
        /\ LabelsOf(nOut) = LabelsOf(nInput)
        /\ \A i \in 1..NRows(nInput) : \A l \in LabelsOf(nInput) :
              LET reduced == ReduceOver(nMetric, BeforeReduction, i, ColumnsOf(nInput, l))
              IN  CellAt(nOut, i, l) =
                      IF nMetric \in {"CPU_utilization", "memory_utilization"}
                      THEN 100 * reduced ELSE reduced

C10_Witness ==
    /\ nPc = "returned"
    /\ nMetric = "CPU_utilization"
    /\ nInput.columns = <<"200", "200">>
    /\ NRows(nInput) >= 1
    /\ nInput.data[1] = <<Num(3), Num(5)>>
    /\ nOut.data[1] = <<Num(500)>>

\* C13: every Distribution sample is replaced by its own mean before the
\* reduction, also when several columns of its row share its label, so that
\* for a Sum metric a label's cell is the sum of the samples' own means (stated
\* here for tables in which no two rows fall into the same minute).
C13_OwnMeanPerSample ==
    (Returned /\ nMetric \in metrics_info
        /\ \A i, k \in 1..NRows(nInput) :
              i # k => Minute(nInput.index[i]) # Minute(nInput.index[k])) =>
        /\ \A i \in 1..NRows(nInput) : \A j \in 1..NCols(nInput) :
              nInput.data[i][j].kind = "dist" =>
                  BeforeReduction.data[i][j] = Num(nInput.data[i][j].v)
        /\ nMetric \in SumMetrics =>
              \A i \in 1..NRows(nInput) : \A l \in LabelsOf(nInput) :
                  (\E j \in ColumnsOf(nInput, l) : nInput.data[i][j].kind = "dist") =>
                      CellAt(nOut, i, l) = SumOver(nInput, i, ColumnsOf(nInput, l))

====
